---- MODULE Spec2Model ----
(***************************************************************************)
(* Model of the WebRTC signaling server (server.js): the room store        *)
(* `rooms`, the connection registry `userSockets`, the socket.io adapter's *)
(* room tagging, and the handlers registered on each socket.  Every action *)
(* is one handler run to completion (single-threaded event loop).          *)
(***************************************************************************)
EXTENDS Integers, Sequences, FiniteSets, TLC

\* ---------------------------------------------------------------- bounds
MaxClients == 3      \* longest member list a room may reach in the model
MaxTime == 1         \* number of clock advances explored

\* ------------------------------------------------------------- constants
StaleTimeout == 1800000    \* staleTimeout = 30 * 60 * 1000
SweepInterval == 300000    \* setInterval period, 5 * 60 * 1000

Conns == {"c1", "c2", "c3"}          \* socket ids
RoomIds == {"r1", "r2"}              \* room identifiers clients send
Absent == "undefined"                \* a field that is not there
EmptyString == ""                    \* the other falsy room id
Reasons == {"transport close"}       \* disconnect reasons
SenderNames == {"alice"}             \* the caller-supplied `sender` field
ForgedTime == "1970-01-01"           \* a caller-supplied joinedAt

VARIABLES
    rooms,          \* Map roomId -> {id, clients, createdAt}
    userSockets,    \* Map socketId -> {roomId, ...userInfo}
    sockets,        \* io.sockets.sockets: state of each transport session
    adapterRooms,   \* io.sockets.adapter.rooms: roomId -> tagged socket ids
    now,            \* Date.now()
    out,            \* events emitted by the handler that ran last
    leftSince,      \* sockets whose last membership change was their own leave
    sweptAt         \* Date.now() at the last run of the setInterval callback

vars == <<rooms, userSockets, sockets, adapterRooms, now, out, leftSince, sweptAt>>

\* ------------------------------------------------------------ Map helpers
MapSet(m, k, v) == [x \in (DOMAIN m) \cup {k} |-> IF x = k THEN v ELSE m[x]]
MapDelete(m, k) == [x \in (DOMAIN m) \ {k} |-> m[x]]
EmptyMap == [x \in {} |-> {}]

\* a test for undefined alone, which lets the empty string through
IsUndefined(x) == x = Absent

\* JavaScript truthiness of an optional string field
IsFalsy(x) == x \in {Absent, EmptyString}

\* Array.prototype.filter
RECURSIVE FilterSeq(_, _)
FilterSeq(s, sid) ==
    IF s = <<>> THEN <<>>
    ELSE IF Head(s).socketId # sid
         THEN <<Head(s)>> \o FilterSeq(Tail(s), sid)
         ELSE FilterSeq(Tail(s), sid)

\* room.clients.findIndex(client => client.socketId === socketId) !== -1
HasClient(clients, sid) == \E i \in 1..Len(clients) : clients[i].socketId = sid

\* how many records of a member list carry the socket id
CountOf(clients, sid) == Cardinality({i \in 1..Len(clients) : clients[i].socketId = sid})

\* --------------------------------------------------------------- payloads
\* the userInfo record of a join: each field present or absent
UserInfos ==
    [socketId : Conns \cup {Absent}, roomId : RoomIds \cup {Absent},
     joinedAt : {Absent, ForgedTime}]
NoUserInfo == [socketId |-> Absent, roomId |-> Absent, joinedAt |-> Absent]

\* { socketId, ...userInfo, joinedAt: Date.now() }: a later property of the
\* literal overrides an earlier one of the same name.  Of the spread fields
\* the record keeps socketId, the one the server reads back.
ClientRecord(socketId, userInfo, t) ==
    [socketId |-> IF userInfo.socketId # Absent THEN userInfo.socketId ELSE socketId,
     joinedAt |-> t]

\* { roomId, ...userInfo }: the entry keeps roomId, the one field read back
RegistryEntry(roomId, userInfo) ==
    [roomId |-> IF userInfo.roomId # Absent THEN userInfo.roomId ELSE roomId]

\* an outbound event delivered to one connection
Msg(to, event, roomId, clients, action, who, info) ==
    [to |-> to, event |-> event, roomId |-> roomId, clients |-> clients,
     action |-> action, who |-> who, info |-> info]

ErrorMsg(to, message) == Msg(to, "error", Absent, <<>>, Absent, Absent, message)

\* io.to(name): every socket the adapter has tagged with the room name
Tagged(ar, name) == IF name \in DOMAIN ar THEN ar[name] ELSE {}

\* -------------------------------------------------------------- the store
\* addUserToRoom(roomId, socketId, userInfo): the new maps and the room
addUserToRoom(roomId, socketId, userInfo) ==
    LET rooms1 == IF roomId \in DOMAIN rooms THEN rooms
                  ELSE MapSet(rooms, roomId,
                              [id |-> roomId, clients |-> <<>>, createdAt |-> now])
        room == rooms1[roomId]
        clients2 == IF HasClient(room.clients, socketId) THEN room.clients
                    ELSE Append(room.clients, ClientRecord(socketId, userInfo, now))
        room2 == [room EXCEPT !.clients = clients2]
    IN  [rooms |-> MapSet(rooms1, roomId, room2),
         userSockets |-> MapSet(userSockets, socketId, RegistryEntry(roomId, userInfo)),
         found |-> TRUE,
         room |-> room2]

NullRoom == [id |-> Absent, clients |-> <<>>, createdAt |-> 0]

\* removeUserFromRoom without its "Remove empty rooms" branch
removeUserKeepEmptyRoom(roomId, socketId) ==
    IF roomId \notin DOMAIN rooms
    THEN [rooms |-> rooms, userSockets |-> userSockets, found |-> FALSE, room |-> NullRoom]
    ELSE LET room2 == [rooms[roomId] EXCEPT !.clients = FilterSeq(@, socketId)]
         IN  [rooms |-> MapSet(rooms, roomId, room2),
              userSockets |-> MapDelete(userSockets, socketId),
              found |-> TRUE, room |-> room2]

\* removeUserFromRoom(roomId, socketId): the new maps and the room or null
removeUserFromRoom(roomId, socketId) ==
    IF roomId \notin DOMAIN rooms
    THEN [rooms |-> rooms, userSockets |-> userSockets, found |-> FALSE, room |-> NullRoom]
    ELSE LET room2 == [rooms[roomId] EXCEPT !.clients = FilterSeq(@, socketId)]
         IN  IF Len(room2.clients) = 0
             THEN [rooms |-> MapDelete(rooms, roomId), userSockets |-> userSockets,
                   found |-> FALSE, room |-> NullRoom]
             ELSE [rooms |-> MapSet(rooms, roomId, room2),
                   userSockets |-> MapDelete(userSockets, socketId),
                   found |-> TRUE, room |-> room2]

\* the member list a store holds for a room id, empty for an unknown id
ClientsOf(rs, roomId) == IF roomId \in DOMAIN rs THEN rs[roomId].clients ELSE <<>>

\* getRoomClients(roomId)
getRoomClients(roomId) == ClientsOf(rooms, roomId)

\* ------------------------------------------------------------------ state
Init ==
    /\ rooms = EmptyMap
    /\ userSockets = EmptyMap
    /\ sockets = [c \in Conns |-> "idle"]
    /\ adapterRooms = EmptyMap
    /\ now = 0
    /\ out = {}
    /\ leftSince = {}
    /\ sweptAt = -1

\* io.on('connection'): a new transport session, handlers registered
Connect(c) ==
    /\ sockets[c] = "idle"
    /\ sockets' = [sockets EXCEPT ![c] = "connected"]
    /\ out' = {}
    /\ UNCHANGED <<rooms, userSockets, adapterRooms, now, leftSince, sweptAt>>

\* socket.join(roomId) / socket.leave(roomId) on the adapter
AdapterJoin(ar, roomId, c) == MapSet(ar, roomId, Tagged(ar, roomId) \cup {c})
AdapterLeave(ar, roomId, c) ==
    IF roomId \notin DOMAIN ar THEN ar
    ELSE IF ar[roomId] \ {c} = {} THEN MapDelete(ar, roomId)
         ELSE MapSet(ar, roomId, ar[roomId] \ {c})
RECURSIVE AdapterLeaveAll(_, _, _)
AdapterLeaveAll(ar, rs, c) ==
    IF rs = {} THEN ar
    ELSE LET r == CHOOSE x \in rs : TRUE
         IN  AdapterLeaveAll(AdapterLeave(ar, r, c), rs \ {r}, c)


\* ------------------------------------------------------------ join / leave
\* what a client may send with `join`: a bare string, an object, or nothing
JoinData ==
    [type : {"string"}, roomId : RoomIds \cup {EmptyString}, userInfo : {NoUserInfo}]
    \cup [type : {"object"}, roomId : RoomIds \cup {Absent}, userInfo : UserInfos]
    \cup [type : {"null"}, roomId : {Absent}, userInfo : {NoUserInfo}]

\* member lists stay within the explored length
JoinFits(c, data) ==
    \/ data.type = "null"
    \/ IsFalsy(data.roomId)
    \/ HasClient(getRoomClients(data.roomId), c)
    \/ Len(getRoomClients(data.roomId)) < MaxClients

\* io.to(roomId).emit('room:update', {roomId, clients, action, ...})
RoomUpdate(ar, roomId, clients, action, who) ==
    { Msg(m, "room:update", roomId, clients, action, who, Absent) : m \in Tagged(ar, roomId) }

\* socket.on('join')
Join(c, data) ==
    /\ sockets[c] = "connected"
    /\ JoinFits(c, data)
    /\ IF data.type = "null"
       THEN \* data.roomId throws a TypeError, caught by the handler
            /\ out' = {ErrorMsg(c, "Failed to join room")}
            /\ UNCHANGED <<rooms, userSockets, adapterRooms, leftSince>>
       ELSE IF IsFalsy(data.roomId)
       THEN /\ out' = {ErrorMsg(c, "Room ID is required")}
            /\ UNCHANGED <<rooms, userSockets, adapterRooms, leftSince>>
       ELSE LET ar == AdapterJoin(adapterRooms, data.roomId, c)
                res == addUserToRoom(data.roomId, c, data.userInfo)
            IN  /\ adapterRooms' = ar
                /\ rooms' = res.rooms
                /\ userSockets' = res.userSockets
                /\ leftSince' = leftSince \ {c}
                /\ out' = RoomUpdate(ar, data.roomId, res.room.clients, "user-joined", c)
                          \cup {Msg(c, "joined", data.roomId, res.room.clients,
                                    Absent, c, Absent)}
    /\ UNCHANGED <<sockets, now, sweptAt>>

\* socket.on('leave')
Leave(c, roomId) ==
    /\ sockets[c] = "connected"
    /\ IF IsFalsy(roomId)
       THEN /\ out' = {ErrorMsg(c, "Room ID is required")}
            /\ UNCHANGED <<rooms, userSockets, adapterRooms, leftSince>>
       ELSE LET ar == AdapterLeave(adapterRooms, roomId, c)
                res == removeUserFromRoom(roomId, c)
            IN  /\ adapterRooms' = ar
                /\ rooms' = res.rooms
                /\ userSockets' = res.userSockets
                /\ leftSince' = IF HasClient(getRoomClients(roomId), c)
                                THEN leftSince \cup {c} ELSE leftSince
                /\ out' = (IF res.found
                           THEN RoomUpdate(ar, roomId, res.room.clients, "user-left", c)
                           ELSE {})
                          \cup {Msg(c, "left", roomId, <<>>, Absent, c, Absent)}
    /\ UNCHANGED <<sockets, now, sweptAt>>

\* ------------------------------------------------------------- disconnect
\* socket.on('disconnect'): the adapter has already dropped the socket's tags
Disconnect(c, reason) ==
    /\ sockets[c] = "connected"
    /\ sockets' = [sockets EXCEPT ![c] = "disconnected"]
    /\ LET ar == AdapterLeaveAll(adapterRooms, DOMAIN adapterRooms, c)
       IN  /\ adapterRooms' = ar
           /\ IF c \in DOMAIN userSockets /\ ~IsFalsy(userSockets[c].roomId)
              THEN LET rid == userSockets[c].roomId
                       res == removeUserFromRoom(rid, c)
                   IN  /\ rooms' = res.rooms
                       /\ userSockets' = res.userSockets
                       /\ out' = IF res.found
                                 THEN RoomUpdate(ar, rid, res.room.clients,
                                                 "user-disconnected", c)
                                      \cup { Msg(m, "user-disconnected", Absent,
                                                 res.room.clients, Absent, c, reason) :
                                             m \in Tagged(ar, rid) }
                                 ELSE {}
              ELSE /\ out' = {}
                   /\ UNCHANGED <<rooms, userSockets>>
    /\ leftSince' = leftSince \ {c}
    /\ UNCHANGED <<now, sweptAt>>

\* ---------------------------------------------------------------- sweeper
\* the sweeper's test with the member count forgotten
IsOld(room) == now - room.createdAt > StaleTimeout

\* now - room.createdAt > staleTimeout && room.clients.length === 0
IsStale(room) == now - room.createdAt > StaleTimeout /\ Len(room.clients) = 0

\* the setInterval callback
Sweep ==
    /\ rooms' = [r \in {x \in DOMAIN rooms : ~IsStale(rooms[x])} |-> rooms[r]]
    /\ out' = {}
    /\ sweptAt' = now
    /\ UNCHANGED <<userSockets, sockets, adapterRooms, now, leftSince>>

\* time passes between events
Tick ==
    /\ now < MaxTime * (StaleTimeout + SweepInterval)
    /\ now' = now + StaleTimeout + SweepInterval
    /\ out' = {}
    /\ UNCHANGED <<rooms, userSockets, sockets, adapterRooms, leftSince, sweptAt>>

\* ---------------------------------------------------------------- signals
SignalKinds == {"offer", "answer", "ice-candidate"}
SignalPayloads ==
    [roomId : RoomIds \cup {Absent}, data : {"payload", Absent},
     sender : SenderNames \cup {Absent}, target : Conns \cup {Absent}]

\* the validation with the sender test forgotten
MissingRoomOrPayload(p) == IsFalsy(p.roomId) \/ IsFalsy(p.data)

\* !roomId || !sdp || !sender
MissingSignalParams(p) == IsFalsy(p.roomId) \/ IsFalsy(p.data) \/ IsFalsy(p.sender)

SignalError(kind) ==
    CASE kind = "offer" -> "Missing required offer parameters"
      [] kind = "answer" -> "Missing required answer parameters"
      [] OTHER -> "Missing required ICE candidate parameters"

\* socket.to(name): the sockets reached by a room name, the sender excluded;
\* every connected socket is alone in the room named by its own id
ToExceptSender(c, name) ==
    ((IF name \in Conns /\ sockets[name] = "connected" THEN {name} ELSE {})
     \cup Tagged(adapterRooms, name)) \ {c}

\* what socket.on('offer' | 'answer' | 'ice-candidate') emits for a payload
SignalEmits(c, kind, p) ==
    IF MissingSignalParams(p)
    THEN {ErrorMsg(c, SignalError(kind))}
    ELSE { Msg(m, kind, p.roomId, <<>>, Absent, p.sender, p.data) :
           m \in ToExceptSender(c, IF ~IsFalsy(p.target) THEN p.target ELSE p.roomId) }

\* socket.on('offer' | 'answer' | 'ice-candidate')
Signal(c, kind, p) ==
    /\ sockets[c] = "connected"
    /\ out' = SignalEmits(c, kind, p)
    /\ UNCHANGED <<rooms, userSockets, sockets, adapterRooms, now, leftSince, sweptAt>>

\* ------------------------------------------------------------------- spec
\* join payloads that carry a room id and no metadata
PlainJoinData == { d \in JoinData : d.type # "null" /\ d.roomId \in RoomIds
                                    /\ d.userInfo = NoUserInfo }

\* membership: three sessions, two rooms, joins without metadata
Next ==
    \/ \E c \in Conns : Connect(c)
    \/ \E c \in Conns, data \in PlainJoinData : Join(c, data)
    \/ \E c \in Conns, r \in RoomIds : Leave(c, r)
    \/ \E c \in Conns, reason \in Reasons : Disconnect(c, reason)
    \/ Sweep

Spec == Init /\ [][Next]_vars

\* metadata: two sessions, joins whose userInfo names at most one of the
\* fields socketId, roomId, joinedAt
MetaConns == {"c1", "c2"}
ForgedFields(u) == {f \in {"socketId", "roomId", "joinedAt"} : u[f] # Absent}
MetaJoinData == { d \in JoinData : /\ d.type = "object" /\ d.roomId \in RoomIds
                                   /\ d.userInfo.socketId \in MetaConns \cup {Absent}
                                   /\ Cardinality(ForgedFields(d.userInfo)) <= 1 }
NextMeta ==
    \/ \E c \in MetaConns : Connect(c)
    \/ \E c \in Conns, data \in MetaJoinData : Join(c, data)
    \/ \E c \in Conns, r \in RoomIds : Leave(c, r)
    \/ \E c \in Conns, reason \in Reasons : Disconnect(c, reason)

SpecMeta == Init /\ [][NextMeta]_vars

\* relay: three sessions that join rooms and exchange negotiation events
RelayJoinData == { d \in PlainJoinData : d.type = "string" }
RelayPayloads ==
    { p \in SignalPayloads :
        Cardinality({f \in {"roomId", "data", "sender"} : p[f] = Absent}) <= 1 }
NextRelay ==
    \/ \E c \in Conns : Connect(c)
    \/ \E c \in Conns, data \in RelayJoinData : Join(c, data)
    \/ \E c \in Conns, k \in SignalKinds, p \in RelayPayloads : Signal(c, k, p)

SpecRelay == Init /\ [][NextRelay]_vars

\* ----------------------------------------------------------------- claims
\* the step is the disconnect of session c
Disconnects(c) == sockets[c] = "connected" /\ sockets'[c] = "disconnected"

\* the connections named by a member list
IdsOf(clients) == { clients[i].socketId : i \in 1..Len(clients) }

\* C1: the registry records room r for connection c if and only if c is in
\* r's member list, and then c is there exactly once.
RegistryAgreesWithStore ==
    \A c \in Conns, r \in RoomIds :
        /\ (c \in DOMAIN userSockets /\ userSockets[c].roomId = r)
              <=> HasClient(getRoomClients(r), c)
        /\ HasClient(getRoomClients(r), c) => CountOf(getRoomClients(r), c) = 1

\* C2: a connection that left its room by `leave`, has not joined since and is
\* in no member list, emits no room:update and no user-disconnected when it
\* disconnects.
DisconnectAfterLeaveIsSilent ==
    [][\A c \in Conns :
          (/\ Disconnects(c)
           /\ c \in leftSince
           /\ \A r \in RoomIds : ~HasClient(getRoomClients(r), c))
          => \A m \in out' : m.event \notin {"room:update", "user-disconnected"}]_vars

\* C3: when c disconnects, every room whose member list contains c loses c;
\* the members that remain are sent room:update (user-disconnected) with the
\* updated list and a user-disconnected notice with the reason; a room left
\* without members is removed from the store.
DisconnectLeavesEveryRoom ==
    [][\A c \in Conns, r \in RoomIds, reason \in Reasons :
          (Disconnect(c, reason) /\ HasClient(getRoomClients(r), c))
          => LET remaining == FilterSeq(getRoomClients(r), c)
             IN  /\ ~HasClient(ClientsOf(rooms', r), c)
                 /\ IF remaining = <<>>
                    THEN r \notin DOMAIN rooms'
                    ELSE /\ ClientsOf(rooms', r) = remaining
                         /\ \A m \in IdsOf(remaining) :
                              /\ Msg(m, "room:update", r, remaining,
                                     "user-disconnected", c, Absent) \in out'
                              /\ Msg(m, "user-disconnected", Absent, remaining,
                                     Absent, c, reason) \in out']_vars

\* C4: once the disconnect of c has been processed the registry holds no
\* entry for c.
DisconnectedHasNoEntry ==
    \A c \in Conns : sockets[c] = "disconnected" => c \notin DOMAIN userSockets

\* C5: no member list holds two records with the same connection identifier.
NoDuplicateMembers ==
    \A r \in DOMAIN rooms, c \in Conns : CountOf(rooms[r].clients, c) <= 1

\* C6: every room in the store has at least one member.
NoEmptyRoom == \A r \in DOMAIN rooms : Len(rooms[r].clients) > 0

\* C6 witness: the last member of a room left it and the room is gone, while
\* the store still holds another room.
LastMemberLeftRoom ==
    \E c \in Conns, r \in RoomIds :
        /\ Msg(c, "left", r, <<>>, Absent, c, Absent) \in out
        /\ c \in leftSince
        /\ c \in DOMAIN userSockets /\ userSockets[c].roomId = r
        /\ r \notin DOMAIN rooms
        /\ DOMAIN rooms # {}

\* C7: a successful join of room r by c leaves r in the store with the
\* members it had plus c, sends every member of r (c included) a room:update
\* (user-joined) carrying r's stored member list, and sends c alone a `joined`
\* acknowledgment with its own id and the same list.
JoinAddsMemberAndAnnounces ==
    [][\A c \in Conns, data \in JoinData :
          (Join(c, data) /\ data.type # "null" /\ ~IsFalsy(data.roomId))
          => LET r == data.roomId
                 before == getRoomClients(r)
                 after == ClientsOf(rooms', r)
             IN  /\ r \in DOMAIN rooms'
                 /\ IdsOf(after) = IdsOf(before) \cup {c}
                 /\ Len(after) = IF HasClient(before, c) THEN Len(before)
                                 ELSE Len(before) + 1
                 /\ \A m \in IdsOf(after) :
                      Msg(m, "room:update", r, after, "user-joined", c, Absent) \in out'
                 /\ \A m \in out' :
                      m.event = "joined" => m = Msg(c, "joined", r, after, Absent, c, Absent)
                 /\ Msg(c, "joined", r, after, Absent, c, Absent) \in out']_vars

\* C8: a leave of room r by a member c removes exactly c's record; the members
\* that remain receive a room:update (user-left) with the remaining list; if c
\* was the last member r is deleted, no room:update is sent and a lookup of r
\* gives the empty list; c is sent a `left` acknowledgment either way.
LeaveRemovesMemberAndAnnounces ==
    [][\A c \in Conns, r \in RoomIds :
          (Leave(c, r) /\ HasClient(getRoomClients(r), c))
          => LET remaining == FilterSeq(getRoomClients(r), c)
             IN  /\ ClientsOf(rooms', r) = remaining
                 /\ IF remaining = <<>>
                    THEN /\ r \notin DOMAIN rooms'
                         /\ \A m \in out' : m.event # "room:update"
                    ELSE \A m \in IdsOf(remaining) :
                           Msg(m, "room:update", r, remaining, "user-left", c, Absent)
                              \in out'
                 /\ Msg(c, "left", r, <<>>, Absent, c, Absent) \in out']_vars

\* C9: a leave of room r by a connection that is not a member of r changes no
\* member list, creates and deletes no room, leaves the registry as it was and
\* reports no error.
LeaveOfNonMemberChangesNothing ==
    [][\A c \in Conns, r \in RoomIds :
          (Leave(c, r) /\ ~HasClient(getRoomClients(r), c))
          => /\ rooms' = rooms
             /\ userSockets' = userSockets
             /\ \A m \in out' : m.event # "error"]_vars

\* the required fields of a negotiation event, as the interface table lists them
RequiredFieldAbsent(p) == p.roomId = Absent \/ p.data = Absent \/ p.sender = Absent

\* the error events of the three negotiation handlers
SignalErrors == { SignalError(k) : k \in SignalKinds }

\* C10: an offer, answer or ice-candidate with a required field missing gives
\* exactly one error event, to the sender, and delivers nothing else; the step
\* that reports the error leaves the room store and the registry unchanged.
InvalidSignalOnlyErrors ==
    /\ [](\A c \in Conns, k \in SignalKinds, p \in SignalPayloads :
            (sockets[c] = "connected" /\ RequiredFieldAbsent(p))
            => SignalEmits(c, k, p) = {ErrorMsg(c, SignalError(k))})
    /\ [][(\E m \in out' : m.event = "error" /\ m.info \in SignalErrors)
          => (rooms' = rooms /\ userSockets' = userSockets)]_vars

\* C10 witness: an offer without its sender was answered with the error while
\* the target named in it sits in a room with the sending connection.
InvalidOfferRejected ==
    \E c \in Conns, r \in DOMAIN rooms :
        /\ out = {ErrorMsg(c, SignalError("offer"))}
        /\ HasClient(rooms[r].clients, c)
        /\ Len(rooms[r].clients) >= 2

\* ------------------------------------------------- events without a room id
\* join payloads that name no room: the empty string, an object without
\* roomId, or no payload at all
NoRoomJoinData == { d \in JoinData : /\ d.roomId \notin RoomIds
                                     /\ Cardinality(ForgedFields(d.userInfo)) <= 1 }
NoRoomIds == {Absent, EmptyString}

\* validation: two sessions, joins and leaves with and without a room id
NextInvalid ==
    \/ \E c \in MetaConns : Connect(c)
    \/ \E c \in Conns, data \in RelayJoinData \cup NoRoomJoinData : Join(c, data)
    \/ \E c \in Conns, r \in RoomIds \cup NoRoomIds : Leave(c, r)
    \/ \E c \in Conns, reason \in Reasons : Disconnect(c, reason)

SpecInvalid == Init /\ [][NextInvalid]_vars

\* the step emitted one error event, to c, and changed neither the store, the
\* registry nor the adapter's tagging
OnlyErrorTo(c) ==
    /\ \E m \in out' : out' = {m} /\ m.event = "error" /\ m.to = c
    /\ rooms' = rooms
    /\ userSockets' = userSockets
    /\ adapterRooms' = adapterRooms

AliasNames == {"c2"}
AliasJoinData == [type : {"string"}, roomId : {"r1"} \cup AliasNames,
                  userInfo : {NoUserInfo}]
ValidPayloads == { p \in SignalPayloads :
                     p.roomId # Absent /\ p.data # Absent /\ p.sender # Absent }

\* routing: three sessions, joins of a room and of a socket's id, valid
\* negotiation events
NextAlias ==
    \/ \E c \in Conns : Connect(c)
    \/ \E c \in Conns, data \in AliasJoinData : Join(c, data)
    \/ \E c \in Conns, k \in SignalKinds, p \in ValidPayloads : Signal(c, k, p)

SpecAlias == Init /\ [][NextAlias]_vars

\* the connections a set of emitted events reaches
Recipients(events) == { m.to : m \in events }

\* C12: a valid offer, answer or ice-candidate with a target reaches that
\* target and no other connection; without a target it reaches every member
\* of the room except the sender and nobody outside the room; the sender
\* never receives its own payload.
SignalRouting ==
    \A c \in Conns, k \in SignalKinds, p \in ValidPayloads :
        sockets[c] = "connected"
        => LET sent == SignalEmits(c, k, p)
           IN  /\ \A m \in sent : m.event = k /\ m.info = p.data
               /\ c \notin Recipients(sent)
               /\ IF p.target # Absent
                  THEN /\ Recipients(sent) \subseteq {p.target}
                       /\ (sockets[p.target] = "connected" /\ p.target # c)
                             => p.target \in Recipients(sent)
                  ELSE Recipients(sent) = IdsOf(getRoomClients(p.roomId)) \ {c}

\* ------------------------------------------------------------ call signals
CallPayloads ==
    [roomId : RoomIds \cup {Absent}, targetSocketId : Conns \cup {Absent},
     sender : SenderNames \cup {Absent}]
ReplyKinds == {"call-accepted", "call-rejected"}

\* the membership test with the search of the member list forgotten
RoomExists(roomId, target) == roomId \in DOMAIN rooms

\* room && room.clients.find(client => client.socketId === targetSocketId)
TargetInRoom(roomId, target) ==
    roomId \in DOMAIN rooms /\ HasClient(rooms[roomId].clients, target)

\* a call notification {sender, <actor>SocketId: socket.id, roomId}; the
\* timestamp it also carries is Date.now() and is not kept
CallMsg(to, event, c, p) == Msg(to, event, p.roomId, <<>>, Absent, c, p.sender)

\* what socket.on('call-user') emits
CallUserEmits(c, p) ==
    IF IsFalsy(p.roomId) \/ IsFalsy(p.targetSocketId) \/ IsFalsy(p.sender)
    THEN {ErrorMsg(c, "Missing required call parameters")}
    ELSE IF ~TargetInRoom(p.roomId, p.targetSocketId)
    THEN {ErrorMsg(c, "Target user not found in room")}
    ELSE { CallMsg(m, "incoming-call", c, p) : m \in ToExceptSender(c, p.targetSocketId) }

\* socket.on('call-user')
CallUser(c, p) ==
    /\ sockets[c] = "connected"
    /\ out' = CallUserEmits(c, p)
    /\ UNCHANGED <<rooms, userSockets, sockets, adapterRooms, now, leftSince, sweptAt>>

\* what socket.on('call-accepted' | 'call-rejected') emits: no validation
CallReplyEmits(c, kind, p) ==
    { CallMsg(m, kind, c, p) : m \in ToExceptSender(c, p.targetSocketId) }

\* socket.on('call-accepted' | 'call-rejected')
CallReply(c, kind, p) ==
    /\ sockets[c] = "connected"
    /\ out' = CallReplyEmits(c, kind, p)
    /\ UNCHANGED <<rooms, userSockets, sockets, adapterRooms, now, leftSince, sweptAt>>

\* call-ended sent with io.to(roomId), the sender not excluded
EndCallToRoom(c, p) ==
    { CallMsg(m, "call-ended", c, p) : m \in Tagged(adapterRooms, p.roomId) }

\* what socket.on('end-call') emits: socket.to(roomId), no validation
EndCallEmits(c, p) ==
    { CallMsg(m, "call-ended", c, p) : m \in ToExceptSender(c, p.roomId) }

\* socket.on('end-call'); targetSocketId is not read
EndCall(c, p) ==
    /\ sockets[c] = "connected"
    /\ p.targetSocketId = Absent
    /\ out' = EndCallEmits(c, p)
    /\ UNCHANGED <<rooms, userSockets, sockets, adapterRooms, now, leftSince, sweptAt>>

\* calls: three sessions that join rooms and exchange call signals whose
\* payload lacks at most one field
CallInputs ==
    { p \in CallPayloads :
        Cardinality({f \in {"roomId", "targetSocketId", "sender"} : p[f] = Absent}) <= 1 }
ReplyInputs == { p \in CallInputs : p.sender # Absent }
NextCall ==
    \/ \E c \in Conns : Connect(c)
    \/ \E c \in Conns, data \in RelayJoinData : Join(c, data)
    \/ \E c \in Conns, p \in CallInputs : CallUser(c, p)
    \/ \E c \in Conns, k \in ReplyKinds, p \in ReplyInputs : CallReply(c, k, p)
    \/ \E c \in Conns, p \in ReplyInputs : EndCall(c, p)

SpecCall == Init /\ [][NextCall]_vars

\* the two error events of the call-user handler
CallUserErrors == {"Missing required call parameters", "Target user not found in room"}

\* the member list the store holds for room r names connection t
ListedIn(r, t) == r \in DOMAIN rooms /\ t \in IdsOf(rooms[r].clients)

\* C13: call-user relays incoming-call only when the target is in the member
\* list of the stated room; when the room is unknown or the target is not
\* listed the caller receives only an error, nobody receives incoming-call and
\* the state is unchanged.
CallUserNeedsMember ==
    /\ [](\A c \in Conns, p \in CallPayloads :
            sockets[c] = "connected"
            => LET sent == CallUserEmits(c, p)
               IN  /\ (\E m \in sent : m.event = "incoming-call")
                         => ListedIn(p.roomId, p.targetSocketId)
                   /\ ~ListedIn(p.roomId, p.targetSocketId)
                         => \E m \in sent : sent = {m} /\ m.event = "error" /\ m.to = c)
    /\ [][(\E m \in out' : \/ m.event = "incoming-call"
                           \/ m.event = "error" /\ m.info \in CallUserErrors)
          => (rooms' = rooms /\ userSockets' = userSockets
              /\ adapterRooms' = adapterRooms)]_vars

\* C13 witness: a call to a connection that sits in another room than the
\* stated one was refused.
CallToNonMemberRefused ==
    \E c \in Conns, r \in DOMAIN rooms, t \in Conns :
        /\ out = {ErrorMsg(c, "Target user not found in room")}
        /\ ~HasClient(rooms[r].clients, t)
        /\ HasClient(rooms[r].clients, c)
        /\ \E r2 \in DOMAIN rooms : HasClient(rooms[r2].clients, t)

\* ------------------------------------------------------- absent payloads
\* the handlers whose parameter is destructured in the signature,
\* ({ roomId, ... }) => { try { ... } }
DestructuringKinds ==
    SignalKinds \cup {"chat-message", "call-user", "end-call"} \cup ReplyKinds
Process == "process"

\* process.on('uncaughtException'): the error is logged, nothing is emitted
UncaughtException(c, kind) ==
    Msg(Process, "uncaughtException", Absent, <<>>, Absent, c, kind)

\* an event of a destructuring handler arrives without a payload: binding
\* the parameters throws a TypeError before the try block is entered
AbsentPayload(c, kind) ==
    /\ sockets[c] = "connected"
    /\ out' = {UncaughtException(c, kind)}
    /\ UNCHANGED <<rooms, userSockets, sockets, adapterRooms, now, leftSince, sweptAt>>

\* malformed events: three sessions that join rooms and send events with
\* no payload or a null payload
MalformedJoinData == RelayJoinData \cup { d \in JoinData : d.type = "null" }
NextMalformed ==
    \/ \E c \in Conns : Connect(c)
    \/ \E c \in Conns, data \in MalformedJoinData : Join(c, data)
    \/ \E c \in Conns, k \in DestructuringKinds : AbsentPayload(c, k)

SpecMalformed == Init /\ [][NextMalformed]_vars

\* C14: an event whose payload is absent or malformed is answered with one
\* error event to the sending connection and never surfaces as an uncaught
\* exception, for every event kind.
HandlerFailureReported ==
    /\ [](\A m \in out : m.event # "uncaughtException")
    /\ [][\A c \in Conns :
            (\/ \E k \in DestructuringKinds : AbsentPayload(c, k)
             \/ \E d \in JoinData : d.type = "null" /\ Join(c, d))
            => \E m \in out' : out' = {m} /\ m.event = "error" /\ m.to = c]_vars

\* exactly one error event, addressed to c
OneErrorTo(c, events) == \E m \in events : events = {m} /\ m.event = "error" /\ m.to = c

\* C15: call-accepted or call-rejected without sender or targetSocketId, and
\* end-call without roomId or sender, produce exactly one error event, sent
\* to the originating connection, and relay nothing.
CallLifecycleValidated ==
    \A c \in Conns, p \in CallPayloads :
        sockets[c] = "connected"
        => /\ (p.sender = Absent \/ p.targetSocketId = Absent)
                 => \A k \in ReplyKinds : OneErrorTo(c, CallReplyEmits(c, k, p))
           /\ (p.targetSocketId = Absent /\ (p.roomId = Absent \/ p.sender = Absent))
                 => OneErrorTo(c, EndCallEmits(c, p))

\* ------------------------------------------------------------------ chat
MaxLen == 2                           \* longest message text explored
Whitespace == {" "}
Chars == Whitespace \cup {"a"}
AbsentText == <<Absent>>              \* a payload without a message field
Texts == UNION { [1..n -> Chars] : n \in 0..MaxLen }
Nonces == {"k3x9", "p0q7"}            \* Math.random().toString(36).substr(2, 9)

ChatPayloads ==
    [roomId : RoomIds \cup {Absent}, message : Texts \cup {AbsentText},
     sender : SenderNames \cup {Absent}]

\* !message: undefined and the empty string are falsy
IsFalsyText(t) == t = AbsentText \/ t = <<>>

RECURSIVE trimStart(_)
trimStart(s) == IF s # <<>> /\ Head(s) \in Whitespace THEN trimStart(Tail(s)) ELSE s

RECURSIVE trimEnd(_)
trimEnd(s) ==
    IF s # <<>> /\ s[Len(s)] \in Whitespace THEN trimEnd(SubSeq(s, 1, Len(s) - 1)) ELSE s

\* the text passed on as it came
untrimmed(s) == s

\* String.prototype.trim
trim(s) == trimEnd(trimStart(s))

\* new Date().toISOString(): the wall-clock rendering of the same instant
toISOString(t) == <<"ISO-8601", t>>

\* messageData, roomId and sender apart
MessageData(p, nonce) ==
    [message |-> trim(p.message), time |-> now, timestamp |-> toISOString(now),
     id |-> <<"msg", now, nonce>>]

\* what socket.on('chat-message') emits
ChatEmits(c, p, nonce) ==
    IF IsFalsy(p.roomId) \/ IsFalsyText(p.message) \/ IsFalsy(p.sender)
    THEN {ErrorMsg(c, "Missing required message parameters")}
    ELSE { Msg(m, "chat-message", p.roomId, <<>>, Absent, p.sender, MessageData(p, nonce)) :
           m \in Tagged(adapterRooms, p.roomId) }

\* socket.on('chat-message')
Chat(c, p, nonce) ==
    /\ sockets[c] = "connected"
    /\ out' = ChatEmits(c, p, nonce)
    /\ UNCHANGED <<rooms, userSockets, sockets, adapterRooms, now, leftSince, sweptAt>>

\* chat: two sessions that join rooms and send messages, signed and with
\* at most one field missing, while time passes
ChatInputs ==
    { p \in ChatPayloads : /\ p.sender # Absent
                           /\ p.roomId = Absent => p.message # AbsentText }
NextChat ==
    \/ \E c \in MetaConns : Connect(c)
    \/ \E c \in Conns, data \in RelayJoinData : Join(c, data)
    \/ \E c \in Conns, p \in ChatInputs, n \in Nonces : Chat(c, p, n)
    \/ Tick

SpecChat == Init /\ [][NextChat]_vars

\* chat payloads with roomId and sender, and a text of the given kind
EmptyChats == { p \in ChatPayloads : p.roomId # Absent /\ p.sender # Absent /\ p.message = <<>> }
SpacesOnlyChats ==
    { p \in ChatPayloads : /\ p.roomId # Absent /\ p.sender # Absent
                           /\ p.message \in Texts \ {<<>>}
                           /\ \A i \in 1..Len(p.message) : p.message[i] = " " }

\* the chat-message events that carry the blank text, the current time and
\* an id to every connection joined to the room of p
BlankDelivery(p, nonce) ==
    { Msg(m, "chat-message", p.roomId, <<>>, Absent, p.sender,
          [message |-> <<>>, time |-> now, timestamp |-> toISOString(now),
           id |-> <<"msg", now, nonce>>]) : m \in Tagged(adapterRooms, p.roomId) }

\* C16 as stated: an empty message and a whitespace-only message alike are
\* delivered blank, with id and timestamps, to the whole room, the sender
\* included, and no error is sent.
BlankChatNeverRejected ==
    \A c \in Conns, p \in EmptyChats \cup SpacesOnlyChats, n \in Nonces :
        sockets[c] = "connected" => ChatEmits(c, p, n) = BlankDelivery(p, n)

\* C16 amended: a whitespace-only message that is not empty is delivered
\* blank, with id and timestamps, to every connection joined to the room,
\* the sender included when it has joined, and no error is sent; an empty
\* message is refused with one error to the sender and nothing is delivered.
BlankChatDeliveredEmptyRejected ==
    /\ [](\A c \in Conns, n \in Nonces :
            sockets[c] = "connected"
            => /\ \A p \in SpacesOnlyChats :
                    /\ ChatEmits(c, p, n) = BlankDelivery(p, n)
                    /\ c \in Tagged(adapterRooms, p.roomId)
                          => c \in Recipients(ChatEmits(c, p, n))
               /\ \A p \in EmptyChats :
                    ChatEmits(c, p, n) = {ErrorMsg(c, "Missing required message parameters")})
    /\ [][(\E m \in out' : m.event = "chat-message")
          => (rooms' = rooms /\ userSockets' = userSockets
              /\ adapterRooms' = adapterRooms)]_vars

\* C16 witness: a blank chat message reached two members of a room, its
\* sender among them, at a time after start.
BlankChatReachedRoom ==
    \E c \in Conns, c2 \in Conns :
        /\ c # c2
        /\ {c, c2} \subseteq Recipients(out)
        /\ \A m \in out : m.event = "chat-message" /\ m.info.message = <<>> /\ m.info.time > 0

\* ----------------------------------------------------------- timed sweeps
\* timed: two sessions that join and leave rooms and disconnect while time
\* passes and the sweeper runs
NextTimed ==
    \/ \E c \in MetaConns : Connect(c)
    \/ \E c \in Conns, data \in PlainJoinData : Join(c, data)
    \/ \E c \in Conns, r \in RoomIds : Leave(c, r)
    \/ \E c \in Conns, reason \in Reasons : Disconnect(c, reason)
    \/ Sweep
    \/ Tick

SpecTimed == Init /\ [][NextTimed]_vars

\* room r has no member and was created longer ago than the stale threshold
EmptyAndOld(r) == Len(rooms[r].clients) = 0 /\ now - rooms[r].createdAt > 30 * 60 * 1000

\* C17: a sweeper run removes exactly the rooms that have no member and are
\* older than the stale threshold, and alters no room it keeps; a room with a
\* member survives at any age and a young empty room survives.
SweepDeletesOnlyStaleEmpty ==
    [][Sweep => /\ DOMAIN rooms' = { r \in DOMAIN rooms : ~EmptyAndOld(r) }
                /\ \A r \in DOMAIN rooms' : rooms'[r] = rooms[r]
                /\ \A r \in DOMAIN rooms : Len(rooms[r].clients) > 0 => r \in DOMAIN rooms']_vars

\* C17 witness: the sweeper has just run and a room older than the stale
\* threshold, with a member, is still in the store.
OldOccupiedRoomSurvivedSweep ==
    /\ sweptAt = now
    /\ out = {}
    /\ \E r \in DOMAIN rooms :
          /\ now - rooms[r].createdAt > StaleTimeout
          /\ Len(rooms[r].clients) > 0

\* end-call payloads that name a room, call replies that name a connection
EndCalls == { p \in CallPayloads : p.roomId \in RoomIds /\ p.targetSocketId = Absent }
Replies == { p \in CallPayloads : p.targetSocketId \in Conns }

\* C18 as stated: call-ended reaches every member of the room, and
\* call-accepted / call-rejected reach the named target whether or not it is
\* a member of any room and whatever call events came before.
CallEndedReachesWholeRoom ==
    \A c \in Conns :
        sockets[c] = "connected"
        => /\ \A p \in EndCalls :
                Recipients(EndCallEmits(c, p)) = IdsOf(getRoomClients(p.roomId))
           /\ \A p \in Replies, k \in ReplyKinds :
                (sockets[p.targetSocketId] = "connected" /\ p.targetSocketId # c)
                => p.targetSocketId \in Recipients(CallReplyEmits(c, k, p))

\* C18 amended: call-ended reaches every connection joined to the room
\* except the one that sent end-call; call-accepted / call-rejected reach the
\* named target whenever it is a connected session other than the sender,
\* whether or not it is a member of any room and whatever came before, and
\* never come back to the sender.
CallEndedReachesOthersInRoom ==
    \A c \in Conns :
        sockets[c] = "connected"
        => /\ \A p \in EndCalls :
                /\ Recipients(EndCallEmits(c, p)) = Tagged(adapterRooms, p.roomId) \ {c}
                /\ \A m \in EndCallEmits(c, p) : m.event = "call-ended" /\ m.who = c
           /\ \A p \in Replies, k \in ReplyKinds :
                /\ (sockets[p.targetSocketId] = "connected" /\ p.targetSocketId # c)
                      => CallMsg(p.targetSocketId, k, c, p) \in CallReplyEmits(c, k, p)
                /\ c \notin Recipients(CallReplyEmits(c, k, p))

\* C18 witness: a member of a room of three ended the call and the two
\* others, not the sender, were told.
CallEndedToldTheOthers ==
    \E r \in DOMAIN rooms, c \in Conns :
        /\ Len(rooms[r].clients) = 3
        /\ c \in Tagged(adapterRooms, r)
        /\ out # {}
        /\ \A m \in out : m.event = "call-ended" /\ m.who = c /\ m.roomId = r
        /\ Recipients(out) = Tagged(adapterRooms, r) \ {c}

\* C19: whatever metadata a join carries, fields named socketId, roomId or
\* joinedAt included, the joining connection is in the member list of the
\* room it joined under its own identifier and its registry entry records
\* that room.
MetadataCannotForgeIdentity ==
    [][\A c \in Conns, d \in MetaJoinData :
          Join(c, d)
          => /\ HasClient(ClientsOf(rooms', d.roomId), c)
             /\ c \in DOMAIN userSockets'
             /\ userSockets'[c].roomId = d.roomId]_vars

\* C20: for every room id, the connections named by the stored member list
\* are exactly the connections the adapter has tagged with the room.
StoreMatchesAdapter ==
    \A r \in RoomIds : IdsOf(getRoomClients(r)) = Tagged(adapterRooms, r)

\* C21: once no session is connected any more, the store holds no room and
\* the registry holds no entry, whatever joins and leaves came before.
NothingLeftWhenAllGone ==
    (\A c \in Conns : sockets[c] # "connected")
        => (DOMAIN rooms = {} /\ DOMAIN userSockets = {})

====
